---------------------------- MODULE Spec2Model ----------------------------
(***************************************************************************)
(* Model of soynlp/tokenizer/_tokenizer.py: LTokenizer, MaxScoreTokenizer  *)
(* and MaxLRScoreTokenizer.                                                *)
(*                                                                         *)
(* A str is a sequence of one-character strings (<<"a","b">> is 'ab'); a   *)
(* dict is a function whose domain is its key set; a float score is an     *)
(* integer number of hundredths (0.65 is 65), so 1e-5 is 1/1000 of a unit. *)
(* Python offsets are 0-based and half-open, as in the source.             *)
(***************************************************************************)
EXTENDS Integers, Sequences, FiniteSets, TLC

VARIABLES
    pc,         \* position of the running call
    args,       \* the arguments given to the constructor and to tokenize
    self,       \* the fields of the constructed tokenizer
    sentence,   \* sentence.split(): the chunks of the sentence, in order
    i,          \* index (1-based) of the chunk the loop of tokenize is at
    offset,     \* tokenize's local offset
    tokens,     \* tokenize's local tokens: one list per chunk
    scored,     \* the candidate pool of _find / the candidates of the LR stages
    result,     \* _find's local result
    num_iter,   \* _find's local num_iter
    candidates, \* MaxLRScoreTokenizer._tokenize's local candidates
    candidates_,\* MaxLRScoreTokenizer._tokenize's local candidates_
    ret,        \* the value the call returned
    err         \* the exception that ended the call, "" when none

vars == <<pc, args, self, sentence, i, offset, tokens, scored, result, num_iter,
          candidates, candidates_, ret, err>>

lrvars == <<candidates, candidates_>>

-----------------------------------------------------------------------------
(* Bounds of the model *)

MaxWordLen == 4
MaxEntries == 2
MaxMaxLen == 3
LongExtra == 3

(* The cap of _find's loop: `if num_iter > 100: break` *)
MaxIter == 100

Alphabet == {"a", "b"}
ScoreVals == {2, 3}

-----------------------------------------------------------------------------
(* Python built-ins *)

Min(x, y) == IF x < y THEN x ELSE y
Max(x, y) == IF x > y THEN x ELSE y

\* t[b:e] for 0 <= b, 0 <= e: the slice is clamped to the string
Slice(t, b, e) ==
    LET bb == Min(Max(b, 0), Len(t))
        ee == Min(Max(e, 0), Len(t))
    IN  IF bb >= ee THEN <<>> ELSE SubSeq(t, bb + 1, ee)

\* d.get(k, default)
Get(d, k, default) == IF k \in DOMAIN d THEN d[k] ELSE default

\* tuple comparison: a < b for two tuples of integers of one length
LexLess(a, b) ==
    \E k \in 1..Len(a) : a[k] < b[k] /\ \A m \in 1..(k - 1) : a[m] = b[m]

\* a function over 1..n as a tuple
AsTuple(f, n) == SubSeq(f, 1, n)

\* The sort keys of the program; reverse=True keeps the order of equal keys,
\* as sorting by the negated key does.

\* a key with length before score
InitializeKeyLengthFirst(x) == <<-x.length, -x.score, x.b>>

\* MaxScoreTokenizer._initialize: key=lambda x:(-x.score, -x.length, x.b)
InitializeKey(x) == <<-x.score, -x.length, x.b>>

\* MaxScoreTokenizer: key=lambda x: x.b, key=lambda x: x[1]
BeginKey(x) == <<x.b>>

\* the key of line 189 without the length
ScoreOnlyKey(x) == <<-x.score>>

\* LTokenizer: key=lambda x: len(x[1]), reverse=True
ToleranceKey(x) == <<-Len(x.l)>>

\* LTokenizer: key=lambda x: (x[0], len(x[1])), reverse=True
ScoreLengthKey(x) == <<-x.score, -Len(x.l)>>

\* MaxLRScoreTokenizer._initialize_LR: key=lambda x:x[4]
RightEndKey(x) == <<x.p2>>

\* MaxLRScoreTokenizer._remove_l_subset: key=lambda x:-x[-2]
LeftScoreKey(x) == <<-x.score_l>>

\* MaxLRScoreTokenizer._score: key=lambda x:(-x[-2], -x[-1], x[2], -x[5])
ScoreOrderKey(x) == <<-x.score_l, -x.score_r, x.p0, -x.len_l>>

\* MaxLRScoreTokenizer._find_best: key=lambda x:-x[-1]
TotalKey(x) == <<-x.total_score>>

\* MaxLRScoreTokenizer: key=lambda x:x[2]
LeftBeginKey(x) == <<x.p0>>

\* the key function of the given name applied to x
KeyOf(key, x) ==
    CASE key = "InitializeKey" -> InitializeKey(x)
      [] key = "BeginKey" -> BeginKey(x)
      [] key = "ToleranceKey" -> ToleranceKey(x)
      [] key = "ScoreLengthKey" -> ScoreLengthKey(x)
      [] key = "RightEndKey" -> RightEndKey(x)
      [] key = "LeftScoreKey" -> LeftScoreKey(x)
      [] key = "ScoreOrderKey" -> ScoreOrderKey(x)
      [] key = "TotalKey" -> TotalKey(x)
      [] key = "LeftBeginKey" -> LeftBeginKey(x)

\* sorted(seq, key=...): stable and ascending; an element's place is the
\* number of elements with a smaller key, or with an equal key and before it
SortByKey(seq, key) ==
    LET n == Len(seq)
        keys == AsTuple([j \in 1..n |-> KeyOf(key, seq[j])], n)
        rank == AsTuple([j \in 1..n |->
                    Cardinality({k \in 1..n : \/ LexLess(keys[k], keys[j])
                                              \/ keys[k] = keys[j] /\ k < j})], n)
    IN  AsTuple([p \in 1..n |-> seq[CHOOSE j \in 1..n : rank[j] = p - 1]], n)

\* Token = namedtuple('Token', 'word b e score length')
Token(word, b, e, score, length) ==
    [word |-> word, b |-> b, e |-> e, score |-> score, length |-> length]

-----------------------------------------------------------------------------
(* MaxScoreTokenizer *)

\* MaxScoreTokenizer.__init__: the fields are set from the arguments as given
MaxScore__init__(a) ==
    [scores |-> a.scores, max_len |-> a.max_length, unknown_score |-> a.unknown_score]

\* _initialize(token, length, offset): every substring of length 2..max_r,
\* sorted by (-score, -length, b)
_initialize(slf, token, length, off) ==
    LET max_r == Min(length, slf.max_len)
        nr == Max(max_r - 1, 0)
        nb == Max(length - 1, 0)
        gen == [k \in 1..(nb * nr) |->
                   LET b == (k - 1) \div nr
                       r == 2 + ((k - 1) % nr)
                       subtoken == Slice(token, b, b + r)
                   IN  Token(subtoken, off + b, off + b + r,
                             Get(slf.scores, subtoken, slf.unknown_score), r)]
        kept == SelectSeq(gen, LAMBDA x : x.e - off <= length)
    IN  SortByKey(kept, "InitializeKey")

\* an overlap test that sees only the candidates that begin at or before b
FindOverlapFromLeft(b, e, b_, e_) == b_ < e /\ b_ <= b

\* the overlap test of _find, as written
FindOverlap(b, e, b_, e_) == (b_ < e /\ b < e_) \/ (b_ < e /\ e_ > b)

\* the cap test that ends _find's loop
FindCapReached(n) == n > MaxIter

\* One pass of the body of _find's `while scored` loop (scored is not empty).
FindIter(sc, res, n) ==
    LET head == Head(sc)
        rest == Tail(sc)
        res2 == Append(res, Token(head.word, head.b, head.e, head.score, head.length))
        left == SelectSeq(rest, LAMBDA x : ~FindOverlap(head.b, head.e, x.b, x.e))
    IN  IF rest = <<>>
        THEN [scored |-> rest, result |-> res2, num_iter |-> n, break |-> TRUE]
        ELSE [scored |-> left, result |-> res2, num_iter |-> n + 1,
              break |-> FindCapReached(n + 1)]

\* _find's return value: sorted(result, key=lambda x: x.b)
FindReturn(res) == SortByKey(res, "BeginKey")

\* _add_inter_subtokens(token, result, offset)
_add_inter_subtokens(slf, token, res, off) ==
    LET gaps == SelectSeq([k \in 1..(Len(res) - 1) |-> k],
                          LAMBDA k : res[k].e # res[k + 1].b)
    IN  [j \in 1..Len(gaps) |->
            LET b == res[gaps[j]].e - off
                e == res[gaps[j] + 1].b - off
            IN  Token(Slice(token, b, e), b, e, slf.unknown_score, e - b)]

\* _add_first_subtoken(token, result, offset=0)
_add_first_subtoken(slf, token, res, off) ==
    LET e == res[1].b
        subtoken == Slice(token, 0, e - off)
    IN  <<Token(subtoken, off, e, Get(slf.scores, subtoken, slf.unknown_score), e - off)>>

\* no Token for the end of the word
AddLastSubtokenNone(slf, token, res, off) == <<>>

\* _add_last_subtoken(token, result, offset=0)
_add_last_subtoken(slf, token, res, off) ==
    LET b == res[Len(res)].e
        subtoken == Slice(token, b, Len(token))
    IN  <<Token(subtoken, b, Len(token),
                Get(slf.scores, subtoken, slf.unknown_score), Len(subtoken))>>

\* the post processing of _recursive_tokenize (lines 260-266), result not empty:
\* the two calls that take no offset run with the default offset=0
PostProcess(slf, s, res, off) ==
    LET length == Len(s)
        adds1 == _add_inter_subtokens(slf, s, res, off)
        adds2 == IF res[Len(res)].e # length
                 THEN adds1 \o _add_last_subtoken(slf, s, res, 0) ELSE adds1
        adds3 == IF res[1].b # 0
                 THEN adds2 \o _add_first_subtoken(slf, s, res, 0) ELSE adds2
    IN  SortByKey(res \o adds3, "BeginKey")

\* _find(scored): the loop run to its end
RECURSIVE FindLoop(_, _, _)
FindLoop(sc, res, n) ==
    IF sc = <<>> THEN FindReturn(res)
    ELSE LET it == FindIter(sc, res, n)
         IN  IF it.break THEN FindReturn(it.result)
             ELSE FindLoop(it.scored, it.result, it.num_iter)

_find(sc) == FindLoop(sc, <<>>, 0)

\* lines 260-266 on the result of _find: result[-1] of an empty result raises
AfterFind(slf, s, res, off) ==
    IF res = <<>> THEN [err |-> "IndexError", val |-> <<>>]
    ELSE [err |-> "", val |-> PostProcess(slf, s, res, off)]

\* _recursive_tokenize(s, offset): [err, val], val the list of Tokens when
\* err = ""
_recursive_tokenize(slf, s, off) ==
    IF Len(s) <= 2 THEN [err |-> "UnboundLocalError", val |-> <<>>]
    ELSE AfterFind(slf, s, _find(_initialize(slf, s, Len(s), off)), off)

\* [subtoken.word for token in tokens for subtoken in token] (line 241)
RECURSIVE FlattenWords(_)
FlattenWords(toks) ==
    IF toks = <<>> THEN <<>>
    ELSE [k \in 1..Len(toks[1]) |-> toks[1][k].word] \o FlattenWords(Tail(toks))

-----------------------------------------------------------------------------
(* The inputs *)

RECURSIVE WordsOfLen(_)
WordsOfLen(n) ==
    IF n = 0 THEN {<<>>}
    ELSE {Append(w, c) : w \in WordsOfLen(n - 1), c \in Alphabet}

Words == UNION {WordsOfLen(n) : n \in 1..MaxWordLen}

\* dictionary keys: the words of one or two characters
Keys == WordsOfLen(1) \cup WordsOfLen(2)

Dicts == UNION {[K -> ScoreVals] : K \in {S \in SUBSET Keys : Cardinality(S) <= MaxEntries}}

EmptyDict == [k \in {} |-> 0]

\* words long enough for _find's loop to reach its cap when max_length is 2
LongWords == {[k \in 1..n |-> "a"] : n \in (2 * (MaxIter + 1))..(2 * (MaxIter + 1) + LongExtra)}

MaxScoreArgs ==
    {[scores |-> d, max_length |-> m, unknown_score |-> 0, flatten |-> FALSE,
      sentence |-> <<w>>] : d \in Dicts, m \in 2..MaxMaxLen, w \in Words}
    \cup
    {[scores |-> EmptyDict, max_length |-> 2, unknown_score |-> 0, flatten |-> FALSE,
      sentence |-> <<w>>] : w \in LongWords}

NoSelf == [scores |-> EmptyDict, max_len |-> 0, unknown_score |-> 0]

-----------------------------------------------------------------------------
(* MaxScoreTokenizer(scores, max_length, unknown_score).tokenize(sentence) *)

InitWith(a) ==
    /\ args = a
    /\ pc = "new"
    /\ self = NoSelf
    /\ sentence = a.sentence
    /\ i = 1
    /\ offset = 0
    /\ tokens = <<>>
    /\ scored = <<>>
    /\ result = <<>>
    /\ num_iter = 0
    /\ candidates = <<>>
    /\ candidates_ = <<>>
    /\ ret = <<>>
    /\ err = ""

Init == \E a \in MaxScoreArgs : InitWith(a)

\* __init__ (lines 213-216)
MS_Construct ==
    /\ pc = "new"
    /\ self' = MaxScore__init__(args)
    /\ pc' = "tokenize"
    /\ UNCHANGED <<args, sentence, i, offset, tokens, scored, result, num_iter, ret, err>>
    /\ UNCHANGED lrvars

\* _recursive_tokenize on a chunk of length <= 2 (lines 246-254): the score
\* lookup reads the local `token` before it is bound
MS_Short ==
    /\ pc = "tokenize"
    /\ i <= Len(sentence)
    /\ Len(sentence[i]) <= 2
    /\ pc' = "error"
    /\ err' = "UnboundLocalError"
    /\ UNCHANGED <<args, self, sentence, i, offset, tokens, scored, result, num_iter, ret>>
    /\ UNCHANGED lrvars

\* _recursive_tokenize on a longer chunk: line 256, and _find up to its loop
MS_Initialize ==
    /\ pc = "tokenize"
    /\ i <= Len(sentence)
    /\ Len(sentence[i]) > 2
    /\ scored' = _initialize(self, sentence[i], Len(sentence[i]), offset)
    /\ result' = <<>>
    /\ num_iter' = 0
    /\ pc' = "find"
    /\ UNCHANGED <<args, self, sentence, i, offset, tokens, ret, err>>
    /\ UNCHANGED lrvars

\* one pass of _find's loop (lines 284-297); a break returns the sorted result
MS_FindStep ==
    /\ pc = "find"
    /\ scored # <<>>
    /\ LET it == FindIter(scored, result, num_iter)
       IN  /\ scored' = it.scored
           /\ num_iter' = it.num_iter
           /\ result' = IF it.break THEN FindReturn(it.result) ELSE it.result
           /\ pc' = IF it.break THEN "found" ELSE "find"
    /\ UNCHANGED <<args, self, sentence, i, offset, tokens, ret, err>>
    /\ UNCHANGED lrvars

\* `while scored` is false: _find returns the sorted result (line 298)
MS_FindExit ==
    /\ pc = "find"
    /\ scored = <<>>
    /\ result' = FindReturn(result)
    /\ pc' = "found"
    /\ UNCHANGED <<args, self, sentence, i, offset, tokens, scored, num_iter, ret, err>>
    /\ UNCHANGED lrvars

\* lines 260-266 of _recursive_tokenize, then lines 238-239 of tokenize;
\* result[-1] of an empty result raises IndexError
MS_PostProcess ==
    /\ pc = "found"
    /\ IF result = <<>>
       THEN /\ pc' = "error"
            /\ err' = "IndexError"
            /\ UNCHANGED <<tokens, offset, i>>
       ELSE /\ tokens' = Append(tokens, PostProcess(self, sentence[i], result, offset))
            /\ offset' = offset + Len(sentence[i]) + 1
            /\ i' = i + 1
            /\ pc' = "tokenize"
            /\ err' = err
    /\ UNCHANGED <<args, self, sentence, scored, result, num_iter, ret>>
    /\ UNCHANGED lrvars

\* tokenize returns (lines 240-242)
MS_Return ==
    /\ pc = "tokenize"
    /\ i > Len(sentence)
    /\ ret' = IF args.flatten THEN FlattenWords(tokens) ELSE tokens
    /\ pc' = "done"
    /\ UNCHANGED <<args, self, sentence, i, offset, tokens, scored, result, num_iter, err>>
    /\ UNCHANGED lrvars

Next ==
    \/ MS_Construct
    \/ MS_Short
    \/ MS_Initialize
    \/ MS_FindStep
    \/ MS_FindExit
    \/ MS_PostProcess
    \/ MS_Return

Spec == Init /\ [][Next]_vars

-----------------------------------------------------------------------------
(* MaxScoreTokenizer.tokenize on sentences of several chunks, and tokenizers *)
(* constructed with any max_length from 0 up                                *)

SecondChunks == {<<"a", "b", "a">>, <<"b", "a", "b", "a">>, <<"b">>}

Sentences == {<<w>> : w \in Words} \cup {<<w, v>> : w \in Words, v \in SecondChunks}

SentDicts == {EmptyDict} \cup {[k \in {key} |-> 3] : key \in WordsOfLen(2) \cup WordsOfLen(3)}

SentArgs ==
    {[scores |-> d, max_length |-> m, unknown_score |-> 0, flatten |-> f, sentence |-> snt] :
        d \in SentDicts, m \in 0..MaxMaxLen, f \in BOOLEAN, snt \in Sentences}

InitSent == \E a \in SentArgs : InitWith(a)

SpecSent == InitSent /\ [][Next]_vars

-----------------------------------------------------------------------------
(* LTokenizer *)

\* LTokenizer.__init__ (lines 152-154)
LTokenizer__init__(a) == [scores |-> a.scores, unknown_score |-> a.unknown_score]

\* max(scores of the candidates)
MaxScoreOf(cands) ==
    CHOOSE m \in {cands[k].score : k \in 1..Len(cands)} :
        \A k \in 1..Len(cands) : cands[k].score <= m

\* the choice of best among the scored candidates (lines 184-189)
BestCandidate(cands, tolerance) ==
    IF tolerance > 0
    THEN LET max_score == MaxScoreOf(cands)
             close == SelectSeq(cands, LAMBDA c : (max_score - c.score) <= tolerance)
         IN  SortByKey(close, "ToleranceKey")[1]
    ELSE SortByKey(cands, "ScoreLengthKey")[1]

\* token_to_lr(token) for len(token) > 2 (lines 182-190): (score, l, r)
token_to_lr(slf, token, tolerance) ==
    LET n == Len(token)
        cands == [k \in 1..(n - 1) |->
                          LET l == Slice(token, 0, k + 1)
                          IN  [score |-> Get(slf.scores, l, slf.unknown_score),
                               l |-> l, r |-> Slice(token, k + 1, n)]]
    IN  BestCandidate(cands, tolerance)

\* the two Tokens of one chunk (lines 196-200)
LRTokens(best, off) ==
    LET len_l == Len(best.l)
        len_r == Len(best.r)
    IN  <<Token(best.l, off, off + len_l, best.score, len_l),
          Token(best.r, off + len_l, off + len_l + len_r, 0, len_r)>>

\* [l.word for l, r in tokens] (line 204)
LWords(toks) == [k \in 1..Len(toks) |-> toks[k][1].word]

\* [subtoken.word for token in tokens for subtoken in token if subtoken.length > 0]
RECURSIVE FlattenNonEmpty(_)
FlattenNonEmpty(toks) ==
    IF toks = <<>> THEN <<>>
    ELSE LET kept == SelectSeq(toks[1], LAMBDA t : t.length > 0)
         IN  [k \in 1..Len(kept) |-> kept[k].word] \o FlattenNonEmpty(Tail(toks))

\* the docstring example (lines 123-127), one name per Hangul syllable
PA == "PA"
SEU == "SEU"
TA == "TA"
GA == "GA"
JOH == "JOH"
AH == "AH"
YO == "YO"

ExampleScores == (<<PA, SEU>> :> 65) @@ (<<PA, SEU, TA>> :> 70) @@ (<<JOH, AH>> :> 30)

ExampleSentence == <<<<PA, SEU, TA, GA>>, <<JOH, AH, YO>>, <<PA, SEU, TA, GA, JOH, AH, YO>>>>

ExampleOutput == <<<<PA, SEU, TA>>, <<GA>>, <<JOH, AH>>, <<YO>>, <<PA, SEU, TA>>, <<GA, JOH, AH, YO>>>>

\* dictionary keys of the L model: the words of two or three characters that
\* begin with "a"
LKeys == {w \in WordsOfLen(2) \cup WordsOfLen(3) : w[1] = "a"}

LDicts == UNION {[K -> ScoreVals] : K \in {S \in SUBSET LKeys : Cardinality(S) <= MaxEntries}}

LSentences == {<<w>> : w \in Words} \cup {<<w, v>> : w \in Words, v \in SecondChunks}

Tolerances == {0, 1}

LArgs ==
    {[scores |-> d, unknown_score |-> 0, sentence |-> snt, tolerance |-> tol,
      flatten |-> TRUE, remove_r |-> FALSE] :
        d \in LDicts, snt \in LSentences, tol \in Tolerances}
    \cup
    {[scores |-> ExampleScores, unknown_score |-> 0, sentence |-> ExampleSentence,
      tolerance |-> tol, flatten |-> f, remove_r |-> r] :
        tol \in {0, 6}, f \in BOOLEAN, r \in BOOLEAN}

InitL == \E a \in LArgs : InitWith(a)

L_Construct ==
    /\ pc = "new"
    /\ self' = LTokenizer__init__(args)
    /\ pc' = "tokenize"
    /\ UNCHANGED <<args, sentence, i, offset, tokens, scored, result, num_iter, ret, err>>
    /\ UNCHANGED lrvars

\* token_to_lr on a chunk of length <= 2 (lines 179-180) reads the `l` of
\* tokenize: unbound at the first chunk (NameError); afterwards the tuple comes
\* back as (token, '', score) and len(r) of the number raises TypeError
L_Short ==
    /\ pc = "tokenize"
    /\ i <= Len(sentence)
    /\ Len(sentence[i]) <= 2
    /\ pc' = "error"
    /\ err' = IF i = 1 THEN "NameError" ELSE "TypeError"
    /\ UNCHANGED <<args, self, sentence, i, offset, tokens, scored, result, num_iter, ret>>
    /\ UNCHANGED lrvars

\* one pass of the loop of tokenize (lines 194-201) on a chunk of length > 2
L_Chunk ==
    /\ pc = "tokenize"
    /\ i <= Len(sentence)
    /\ Len(sentence[i]) > 2
    /\ LET best == token_to_lr(self, sentence[i], args.tolerance)
       IN  /\ tokens' = Append(tokens, LRTokens(best, offset))
           /\ offset' = offset + Len(best.l) + Len(best.r) + 1
    /\ i' = i + 1
    /\ UNCHANGED <<pc, args, self, sentence, scored, result, num_iter, ret, err>>
    /\ UNCHANGED lrvars

\* lines 203-209
L_Return ==
    /\ pc = "tokenize"
    /\ i > Len(sentence)
    /\ ret' = IF args.remove_r THEN LWords(tokens)
              ELSE IF args.flatten THEN FlattenNonEmpty(tokens)
              ELSE tokens
    /\ pc' = "done"
    /\ UNCHANGED <<args, self, sentence, i, offset, tokens, scored, result, num_iter, err>>
    /\ UNCHANGED lrvars

NextL ==
    \/ L_Construct
    \/ L_Short
    \/ L_Chunk
    \/ L_Return

SpecL == InitL /\ [][NextL]_vars

-----------------------------------------------------------------------------
(* MaxLRScoreTokenizer *)

\* max_length=10, the default of MaxScoreTokenizer.__init__
DefaultMaxLength == 10

\* the score 1.0 given to preference words that are not in the dictionary
PreferenceScore == 100

\* 1e-5, in thousandths of a hundredth
Eps == 1

\* max((len(w) for w in D)) if D else 0
MaxKeyLen(D) ==
    IF DOMAIN D = {} THEN 0
    ELSE CHOOSE n \in {Len(w) : w \in DOMAIN D} : \A w \in DOMAIN D : Len(w) <= n

\* the dictionary with the preference words added (lines 358-363)
WithPreference(D, P) ==
    [w \in DOMAIN D \cup DOMAIN P |-> IF w \in DOMAIN D THEN D[w] ELSE PreferenceScore]

\* MaxLRScoreTokenizer.__init__ without lrgraph and tokenizer_builder
MaxLR__init__(a) ==
    LET Dl == WithPreference(a.Dl, a.preference_l)
        Dr == WithPreference(a.Dr, a.preference_r)
    IN  [Dl |-> Dl, Dr |-> Dr, Pl |-> a.preference_l, Pr |-> a.preference_r,
         lmax |-> MaxKeyLen(Dl), rmax |-> MaxKeyLen(Dr),
         base_tokenizer |-> [scores |-> Dr, max_len |-> DefaultMaxLength, unknown_score |-> 0],
         max_lscore_difference |-> a.max_lscore_difference,
         max_lscore_diffratio |-> a.max_lscore_diffratio,
         ensurable_score_l |-> a.ensurable_score_l,
         ensurable_score_lr_diff |-> a.ensurable_score_lr_diff]

\* _initialize_L(t): [l, b, e, e-b] for every t[b:e] that is a key of Dl
_initialize_L(slf, t) ==
    LET n == Len(t)
        gen == [k \in 1..(n * slf.lmax) |->
                   LET b == (k - 1) \div slf.lmax
                       e == b + 1 + ((k - 1) % slf.lmax)
                   IN  [l |-> Slice(t, b, e), b |-> b, e |-> e, len_l |-> e - b]]
    IN  SelectSeq(gen, LAMBDA c : c.e <= n /\ c.l \in DOMAIN slf.Dl)

\* _initialize_LR(t, candidates)
_initialize_LR(slf, t, cands) ==
    LET n == Len(t)
        w == slf.rmax + 1
        gen == [k \in 1..(Len(cands) * w) |->
                   LET c == cands[1 + ((k - 1) \div w)]
                       len_r == (k - 1) % w
                   IN  [l |-> c.l, r |-> Slice(t, c.e, c.e + len_r),
                        p0 |-> c.b, p1 |-> c.e, p2 |-> c.e + len_r,
                        len_l |-> c.len_l, len_r |-> len_r, len_lr |-> c.len_l + len_r]]
        expanded == SelectSeq(gen, LAMBDA x :
                        /\ x.len_r <= Min(slf.rmax, n - x.p1)
                        /\ ~(x.len_l = 1 /\ x.len_r = 0)
                        /\ ~(x.r # <<>> /\ x.r \notin DOMAIN slf.Dr))
    IN  SortByKey(expanded, "RightEndKey")

\* _initialize(t) of MaxLRScoreTokenizer (lines 399-402)
LR_initialize(slf, t) == _initialize_LR(slf, t, _initialize_L(slf, t))

\* the candidate with its two scores appended (lines 442-443)
WithScores(slf, c) ==
    [l |-> c.l, r |-> c.r, p0 |-> c.p0, p1 |-> c.p1, p2 |-> c.p2,
     len_l |-> c.len_l, len_r |-> c.len_r, len_lr |-> c.len_lr,
     score_l |-> Get(slf.Dl, c.l, 0), score_r |-> Get(slf.Dr, c.r, 0)]

\* a containment test that asks c to extend past [b, e) on both sides
LongerContainsBothSides(c, b, e) == c.p0 < b /\ c.p1 > e

\* line 453, negated: c's Left span holds [b, e) and is longer
LongerContains(c, b, e) == ~(c.p0 > b \/ c.p1 < e \/ ~(c.p0 < b \/ c.p1 > e))

\* (lscore + 1e-5) / (c + 1e-5) < ratio, scores and ratio in hundredths
RatioLess(lscore, c, ratio) ==
    LET num == lscore * 1000 + Eps
        den == c * 1000 + Eps
    IN  IF den > 0 THEN 100 * num < ratio * den ELSE 100 * num > ratio * den

\* the test of lines 455-457: best (Left score lscore) is given up for c
Suppresses(slf, lscore, c) ==
    \/ (lscore - c.score_l) < slf.max_lscore_difference
    \/ /\ slf.ensurable_score_l < 2 * lscore
       /\ RatioLess(lscore, c.score_l, slf.max_lscore_diffratio)

\* the candidates in the order the loop of _remove_l_subset pops them (line 444)
FilterOrder(slf, cands) ==
    SortByKey([k \in 1..Len(cands) |-> WithScores(slf, cands[k])], "LeftScoreKey")

\* exist_longer for the candidate popped k-th: the loop of lines 452-459 runs
\* over the candidates still in the list, those after it
ExistLonger(slf, sorted, k) ==
    \E j \in (k + 1)..Len(sorted) :
        /\ LongerContains(sorted[j], sorted[k].p0, sorted[k].p1)
        /\ Suppresses(slf, sorted[k].score_l, sorted[j])

\* _remove_l_subset(candidates)
_remove_l_subset(slf, cands) ==
    LET sorted == FilterOrder(slf, cands)
        keep == SelectSeq([k \in 1..Len(sorted) |-> k],
                          LAMBDA k : ~ExistLonger(slf, sorted, k))
    IN  [k \in 1..Len(keep) |-> sorted[keep[k]]]

\* word[-2] as line 488 and 489 read it: begin_to_words holds the very lists
\* that line 496 extends, so for a word that was scored already (it is in
\* `done`, the list `scored` so far) word[-2] is its Right score, and for any
\* other word its Left score
SecondLast(word, done) ==
    IF \E j \in 1..Len(done) : done[j] = word THEN word.score_r ELSE word.score_l

\* lines 482-491: the Right part of c is claimed by a word that begins in it
Overlapped(slf, cands, done, c) ==
    /\ c.len_r # 0
    /\ \E b \in c.p1..(c.p2 - 1) : \E k \in 1..Len(cands) :
          /\ cands[k].p0 = b
          /\ \/ slf.ensurable_score_l <= SecondLast(cands[k], done)
             \/ SecondLast(cands[k], done) + Get(slf.Pl, cands[k].l, 0) - c.score_r
                    > slf.ensurable_score_lr_diff

\* line 495
TotalScore(slf, c) ==
    (IF c.r = <<>> THEN c.score_l * 2 ELSE c.score_l + c.score_r)
        + Get(slf.Pl, c.l, 0) + Get(slf.Pr, c.r, 0)

WithTotal(slf, c) ==
    [l |-> c.l, r |-> c.r, p0 |-> c.p0, p1 |-> c.p1, p2 |-> c.p2,
     len_l |-> c.len_l, len_r |-> c.len_r, len_lr |-> c.len_lr,
     score_l |-> c.score_l, score_r |-> c.score_r, total_score |-> TotalScore(slf, c)]

\* the loop of lines 477-497 from the k-th candidate of the sorted list on;
\* done: the candidates kept so far
RECURSIVE ScoreLoop(_, _, _, _, _)
ScoreLoop(slf, cands, sorted, k, done) ==
    IF k > Len(sorted) THEN done
    ELSE ScoreLoop(slf, cands, sorted, k + 1,
                   IF Overlapped(slf, cands, done, sorted[k]) THEN done
                   ELSE Append(done, sorted[k]))

\* the kept candidates with their total_score appended
WithTotals(slf, kept) == [k \in 1..Len(kept) |-> WithTotal(slf, kept[k])]

\* _score(candidates)
_score(slf, cands) ==
    WithTotals(slf, ScoreLoop(slf, cands, SortByKey(cands, "ScoreOrderKey"), 1, <<>>))

\* the loop of _find_best (lines 503-508)
RECURSIVE FindBestLoop(_, _)
FindBestLoop(sorted_, best) ==
    IF sorted_ = <<>> THEN best
    ELSE LET head == Head(sorted_)
             rest == SelectSeq(Tail(sorted_),
                               LAMBDA c : ~(head.p0 < c.p2 /\ head.p2 > c.p0))
         IN  FindBestLoop(rest, Append(best, head))

\* _find_best(scores)
_find_best(scores) == SortByKey(FindBestLoop(SortByKey(scores, "TotalKey"), <<>>), "LeftBeginKey")

\* one word of the base tokenizer as a list entry (lines 550-553); b_ stays 0
SubwordEntry(slf, w, b) ==
    LET n == Len(w)
    IN  IF w \in DOMAIN slf.Dr
        THEN [l |-> <<>>, r |-> w, p0 |-> b, p1 |-> b, p2 |-> b + n,
              len_l |-> 0, len_r |-> n, len_lr |-> n,
              score_l |-> 0, score_r |-> slf.base_tokenizer.scores[w]]
        ELSE [l |-> w, r |-> <<>>, p0 |-> b, p1 |-> b + n, p2 |-> b + n,
              len_l |-> n, len_r |-> 0, len_lr |-> n, score_l |-> 0, score_r |-> 0]

\* the loop of lines 547-553 over the words the base tokenizer returned
SubwordEntries(slf, r, b) ==
    IF r.err # "" THEN r
    ELSE [err |-> "", val |-> [k \in 1..Len(r.val) |-> SubwordEntry(slf, r.val[k].word, b)]]

\* _base_tokenizing_subword(t, b): [err, val]; base_tokenizer.tokenize(t) is
\* _recursive_tokenize(t, 0) flattened, t being one chunk
_base_tokenizing_subword(slf, t, b) ==
    SubwordEntries(slf, _recursive_tokenize(slf.base_tokenizer, t, 0), b)

\* the uncovered stretches [b, e) of t that _postprocessing hands to
\* _base_tokenizing_subword, in the order of its calls: _add_first_subword
\* (t[0:e], lines 514-515), _add_last_subword (t[b:] from the end of the last
\* Left part, lines 516-517 and 534-535), _add_inter_subwords (lines 522-531)
Gaps(t, words) ==
    LET n == Len(t)
        first == IF words[1].p0 > 0 THEN <<[b |-> 0, e |-> words[1].p0]>> ELSE <<>>
        last == IF words[Len(words)].p1 < n
                THEN <<[b |-> words[Len(words)].p1, e |-> n]>> ELSE <<>>
        between == SelectSeq([k \in 1..(Len(words) - 1) |-> k],
                             LAMBDA k : words[k].p2 # words[k + 1].p0)
        inter == [j \in 1..Len(between) |->
                     [b |-> words[between[j]].p2, e |-> words[between[j] + 1].p0]]
    IN  first \o last \o inter

\* adds = []
NoAdds == [err |-> "", val |-> <<>>]

\* adds += more, unless a call raised
Chain(one, more) ==
    IF one.err # "" THEN one
    ELSE IF more.err # "" THEN more
    ELSE [err |-> "", val |-> one.val \o more.val]

\* the entries _base_tokenizing_subword gives for the stretches from the k-th
\* on: [err, val], err the exception of the first call that raises
RECURSIVE AddsFrom(_, _, _, _)
AddsFrom(slf, t, gaps, k) ==
    IF k > Len(gaps) THEN NoAdds
    ELSE Chain(_base_tokenizing_subword(slf, Slice(t, gaps[k].b, gaps[k].e), gaps[k].b),
               AddsFrom(slf, t, gaps, k + 1))

\* sorted(words + adds, key=lambda x: x[2]) (lines 519-520)
Sorted(words, adds) ==
    IF adds.err # "" THEN adds
    ELSE [err |-> "", val |-> SortByKey(words \o adds.val, "LeftBeginKey")]

\* lines 389-392 of _tokenize: _postprocessing(t, best) when best is not
\* empty (lines 511-520), else _base_tokenizing_subword(t, 0): [err, val]
PostOf(slf, t, best) ==
    Sorted(best, AddsFrom(slf, t, IF best # <<>> THEN Gaps(t, best)
                                  ELSE <<[b |-> 0, e |-> Len(t)]>>, 1))

\* lines 395-396: the (text, 'L') and (text, 'R') pairs with a non-empty text
RECURSIVE TaggedParts(_)
TaggedParts(post) ==
    IF post = <<>> THEN <<>>
    ELSE LET p == Head(post)
             lr == <<[word |-> p.l, tag |-> "L"], [word |-> p.r, tag |-> "R"]>>
         IN  SelectSeq(lr, LAMBDA w : w.word # <<>>) \o TaggedParts(Tail(post))

-----------------------------------------------------------------------------
(* MaxLRScoreTokenizer(Dl, Dr, preference_l, preference_r)._tokenize(t) *)

LScoreVals == {20, 40, 60}

DlKeys == {<<"a">>, <<"a", "b">>, <<"b", "a">>}

DlDicts == UNION {[K -> LScoreVals] : K \in {S \in SUBSET DlKeys : Cardinality(S) <= MaxEntries}}

DrKeys == {<<"a">>, <<"b">>, <<"b", "a", "b">>}

DrDicts == UNION {[K -> {30}] : K \in SUBSET DrKeys}

Preferences ==
    {<<EmptyDict, EmptyDict>>,
     <<(<<"a", "b">> :> 10), EmptyDict>>,
     <<EmptyDict, (<<"b">> :> 10)>>}

LRArgs ==
    {[Dl |-> dl, Dr |-> dr, preference_l |-> p[1], preference_r |-> p[2],
      max_lscore_difference |-> 30, max_lscore_diffratio |-> 50,
      ensurable_score_l |-> 50, ensurable_score_lr_diff |-> 30,
      sentence |-> <<w>>] :
        dl \in DlDicts, dr \in DrDicts, p \in Preferences, w \in Words}

InitLR == \E a \in LRArgs : InitWith(a)

LR_Construct ==
    /\ pc = "new"
    /\ self' = MaxLR__init__(args)
    /\ pc' = "initialize"
    /\ UNCHANGED <<args, sentence, i, offset, tokens, scored, result, num_iter,
                   candidates, candidates_, ret, err>>

\* line 384
LR_Initialize ==
    /\ pc = "initialize"
    /\ candidates' = LR_initialize(self, sentence[1])
    /\ pc' = "remove_l_subset"
    /\ UNCHANGED <<args, self, sentence, i, offset, tokens, scored, result, num_iter,
                   candidates_, ret, err>>

\* line 385
LR_RemoveLSubset ==
    /\ pc = "remove_l_subset"
    /\ candidates_' = _remove_l_subset(self, candidates)
    /\ pc' = "score"
    /\ UNCHANGED <<args, self, sentence, i, offset, tokens, scored, result, num_iter,
                   candidates, ret, err>>

\* line 386
LR_Score ==
    /\ pc = "score"
    /\ scored' = _score(self, candidates_)
    /\ pc' = "find_best"
    /\ UNCHANGED <<args, self, sentence, i, offset, tokens, result, num_iter,
                   candidates, candidates_, ret, err>>

\* line 387
LR_FindBest ==
    /\ pc = "find_best"
    /\ result' = _find_best(scored)
    /\ pc' = "post"
    /\ UNCHANGED <<args, self, sentence, i, offset, tokens, scored, num_iter,
                   candidates, candidates_, ret, err>>

\* lines 389-397
LR_Post ==
    /\ pc = "post"
    /\ \E post \in {PostOf(self, sentence[1], result)} :
           IF post.err # ""
           THEN /\ pc' = "error"
                /\ err' = post.err
                /\ ret' = ret
           ELSE /\ pc' = "done"
                /\ err' = err
                /\ ret' = TaggedParts(post.val)
    /\ UNCHANGED <<args, self, sentence, i, offset, tokens, scored, result, num_iter,
                   candidates, candidates_>>

NextLR ==
    \/ LR_Construct
    \/ LR_Initialize
    \/ LR_RemoveLSubset
    \/ LR_Score
    \/ LR_FindBest
    \/ LR_Post

SpecLR == InitLR /\ [][NextLR]_vars

-----------------------------------------------------------------------------
(* MaxLRScoreTokenizer constructed with thresholds other than the defaults *)

\* max_lscore_difference, max_lscore_diffratio, ensurable_score_l
Differences == {10, 30}
Diffratios == {50, 400}
EnsurableScores == {50, 130}

ThresholdDrDicts == UNION {[K -> {30}] : K \in SUBSET {<<"a">>, <<"b">>}}

ThresholdArgs ==
    {[Dl |-> dl, Dr |-> dr, preference_l |-> EmptyDict, preference_r |-> EmptyDict,
      max_lscore_difference |-> d, max_lscore_diffratio |-> q,
      ensurable_score_l |-> en, ensurable_score_lr_diff |-> 30,
      sentence |-> <<w>>] :
        dl \in DlDicts, dr \in ThresholdDrDicts, d \in Differences, q \in Diffratios,
        en \in EnsurableScores, w \in Words}

InitThresholds == \E a \in ThresholdArgs : InitWith(a)

SpecThresholds == InitThresholds /\ [][NextLR]_vars

-----------------------------------------------------------------------------
(* Properties of MaxScoreTokenizer *)

\* the Tokens toks, in order, split w exactly, w beginning at offset o: no gap,
\* no overlap, no empty Token, each text the characters of its span
Partitions(toks, w, o) ==
    /\ toks # <<>>
    /\ toks[1].b = o
    /\ toks[Len(toks)].e = o + Len(w)
    /\ \A k \in 1..(Len(toks) - 1) : toks[k].e = toks[k + 1].b
    /\ \A k \in 1..Len(toks) :
          /\ toks[k].b < toks[k].e
          /\ toks[k].word = Slice(w, toks[k].b - o, toks[k].e - o)

\* the offset of the k-th chunk in a sentence whose chunks one space separates
RECURSIVE ChunkOffset(_, _)
ChunkOffset(snt, k) ==
    IF k = 1 THEN 0 ELSE ChunkOffset(snt, k - 1) + Len(snt[k - 1]) + 1

\* C1: a word longer than 2, tokenized at offset 0 with max_length >= 2, raises
\* nothing and comes back as Tokens that, in the order of their begins, split
\* the word exactly (first begins at 0, each ends where the next begins, the
\* last ends at len(word), each text is word[b:e]); also when _find stopped at
\* its cap
C1_Partition ==
    /\ (pc = "error" => Len(sentence[i]) <= 2)
    /\ \A k \in 1..Len(tokens) : Partitions(tokens[k], sentence[k], 0)

\* a word whose selection stopped at the cap with candidates left over, and
\* whose end _add_last_subtoken filled
C1_CapWitness ==
    /\ pc = "done"
    /\ num_iter > MaxIter
    /\ scored # <<>>
    /\ Len(tokens[1]) = MaxIter + 2

\* the substring w[b:e] as a candidate Token of a word at offset o
CandidateAt(slf, w, o, b, e) ==
    Token(Slice(w, b, e), o + b, o + e,
          Get(slf.scores, Slice(w, b, e), slf.unknown_score), e - b)

\* every substring of w of a length in 2..max_len, as a candidate Token
CandidateSet(slf, w, o) ==
    {CandidateAt(slf, w, o, q[1], q[1] + q[2]) :
        q \in {p \in (0..(Len(w) - 2)) \X (2..slf.max_len) : p[1] + p[2] <= Len(w)}}

SelectedSet(res) == {res[k] : k \in 1..Len(res)}

Overlap(x, y) == x.b < y.e /\ y.b < x.e

NonOverlapping(S) == \A x \in S : \A y \in S : x = y \/ ~Overlap(x, y)

RECURSIVE SumScores(_)
SumScores(S) ==
    IF S = {} THEN 0
    ELSE LET x == CHOOSE y \in S : TRUE IN x.score + SumScores(S \ {x})

\* r is not after c in the order: higher score, then longer, then earlier
Precedes(r, c) ==
    \/ r.score > c.score
    \/ r.score = c.score /\ r.length > c.length
    \/ r.score = c.score /\ r.length = c.length /\ r.b <= c.b

\* sel is what a greedy pass over cands selects; when the pass was cut short,
\* only that it is a non-overlapping set of candidates
Greedy(cands, sel, capped) ==
    /\ sel \subseteq cands
    /\ NonOverlapping(sel)
    /\ ~capped => \A c \in cands \ sel : \E r \in sel : Overlap(r, c) /\ Precedes(r, c)

\* C2 (as amended): the Tokens _find selects are pairwise non-overlapping
\* substrings of a length in [2, max_length], and, unless the loop stopped at
\* its cap, every substring that was not selected overlaps a selected one that
\* has a higher score, or the same score and a greater length, or the same
\* score and length and an earlier begin: the selection is the greedy one, not
\* the one of highest total
C2_Greedy ==
    pc = "found" =>
        Greedy(CandidateSet(self, sentence[i], offset), SelectedSet(result),
               num_iter > MaxIter)

\* a selection that leaves out a substring the dictionary scores
C2_GreedyWitness ==
    /\ pc = "found"
    /\ Len(result) >= 2
    /\ \E c \in CandidateSet(self, sentence[i], offset) \ SelectedSet(result) :
           c.score > self.unknown_score

\* C2 (as stated): no set of pairwise non-overlapping substrings of lengths in
\* [2, max_length] has a larger sum of scores than the set _find selects
C2_Optimal ==
    (pc = "found" /\ Len(sentence[i]) <= MaxWordLen) =>
        \A S \in SUBSET CandidateSet(self, sentence[i], offset) :
            NonOverlapping(S) => SumScores(S) <= SumScores(SelectedSet(result))

\* C3 (as stated): a chunk of length 1 or 2 raises nothing and comes back as one
\* Token: the whole chunk, its span [offset, offset + length), its score the
\* dictionary's or unknown_score
C3_ShortWordOneToken ==
    \A k \in 1..Len(sentence) : Len(sentence[k]) <= 2 =>
        /\ ~(pc = "error" /\ i = k)
        /\ k <= Len(tokens) =>
              tokens[k] = <<Token(sentence[k], ChunkOffset(sentence, k),
                                  ChunkOffset(sentence, k) + Len(sentence[k]),
                                  Get(self.scores, sentence[k], self.unknown_score),
                                  Len(sentence[k]))>>

\* C4 (as stated): in a sentence of chunks longer than 2, the Tokens of the
\* chunk at offset o split [o, o + len(chunk)) exactly, each text the
\* characters of its span, none empty, none outside the chunk
C4_ChunkPartition ==
    (/\ ~args.flatten
     /\ args.max_length >= 2
     /\ \A k \in 1..Len(sentence) : Len(sentence[k]) > 2) =>
        \A k \in 1..Len(tokens) :
            Partitions(tokens[k], sentence[k], ChunkOffset(sentence, k))

\* the split of w into consecutive chunks of length c, a shorter remainder last
ExpectedSplit(w, c, us) ==
    LET n == Len(w)
        cnt == (n + c - 1) \div c
    IN  AsTuple([k \in 1..cnt |->
                    Token(Slice(w, (k - 1) * c, Min(k * c, n)), (k - 1) * c,
                          Min(k * c, n), us, Min(k * c, n) - (k - 1) * c)], cnt)

\* the first q chunks of length c of w, then whatever is left as one Token
CappedSplit(w, c, q, us) ==
    LET n == Len(w)
        full == Min(n \div c, q)
        chunks == AsTuple([k \in 1..full |->
                      Token(Slice(w, (k - 1) * c, k * c), (k - 1) * c, k * c, us, c)], full)
    IN  IF full * c < n
        THEN Append(chunks, Token(Slice(w, full * c, n), full * c, n, us, n - full * c))
        ELSE chunks

\* C6 (as amended): with an empty dictionary a word of length n > 2 comes back
\* as its consecutive chunks of length c = min(max_length, n), at most 101 of
\* them, then the rest of the word as one Token; so for n <= 102 * c it is the
\* split into chunks of length c plus remainder and no Token is longer than
\* max_length, and a longer word ends in one Token longer than max_length
C6_CappedSplit ==
    (args.scores = EmptyDict /\ Len(tokens) >= 1) =>
        /\ tokens[1] = CappedSplit(sentence[1], Min(args.max_length, Len(sentence[1])),
                                   MaxIter + 1, args.unknown_score)
        /\ Len(sentence[1]) <= (MaxIter + 2) * Min(args.max_length, Len(sentence[1])) =>
              /\ tokens[1] = ExpectedSplit(sentence[1],
                                           Min(args.max_length, Len(sentence[1])),
                                           args.unknown_score)
              /\ \A k \in 1..Len(tokens[1]) : tokens[1][k].length <= args.max_length

\* a word so long that the selection stops at the cap and the rest of the word
\* is one Token longer than max_length
C6_LongWitness ==
    /\ pc = "done"
    /\ args.scores = EmptyDict
    /\ Len(sentence[1]) > (MaxIter + 2) * args.max_length
    /\ tokens[1][Len(tokens[1])].length > args.max_length

\* C6 (as stated): with an empty dictionary every word of length n > 2 comes
\* back as its chunks of length min(max_length, n) plus remainder, no Token
\* longer than max_length
C6_EverySplit ==
    (args.scores = EmptyDict /\ Len(tokens) >= 1) =>
        /\ tokens[1] = ExpectedSplit(sentence[1], Min(args.max_length, Len(sentence[1])),
                                     args.unknown_score)
        /\ \A k \in 1..Len(tokens[1]) : tokens[1][k].length <= args.max_length

\* C8 (as stated): a tokenizer given a max_length below 2 fails at construction
\* and never reaches segmentation
C8_FailFast ==
    args.max_length < 2 => pc \notin {"tokenize", "find", "found", "done"}

\* C9 (as stated): _find selects at most 100 candidates for one word, and the
\* candidates left in the pool when the loop stops are not selected
C9_AtMost100 ==
    pc \in {"find", "found"} =>
        /\ Len(result) <= MaxIter
        /\ \A k \in 1..Len(scored) : \A j \in 1..Len(result) : scored[k] # result[j]

-----------------------------------------------------------------------------
(* Properties of LTokenizer *)

\* the score of the prefix of w of length k
PrefixScore(slf, w, k) == Get(slf.scores, Slice(w, 0, k), slf.unknown_score)

\* the length of the best prefix of w: of the prefixes of length >= 2 the one
\* of highest score, of those the longest
BestPrefixLen(slf, w) ==
    CHOOSE k \in 2..Len(w) : \A j \in 2..Len(w) :
        \/ PrefixScore(slf, w, j) < PrefixScore(slf, w, k)
        \/ PrefixScore(slf, w, j) = PrefixScore(slf, w, k) /\ j <= k

\* the L part of w, and after it the R part unless it is empty
ExpectedLR(slf, w) ==
    IF BestPrefixLen(slf, w) = Len(w) THEN <<w>>
    ELSE <<Slice(w, 0, BestPrefixLen(slf, w)), Slice(w, BestPrefixLen(slf, w), Len(w))>>

RECURSIVE ExpectedFlat(_, _)
ExpectedFlat(slf, snt) ==
    IF snt = <<>> THEN <<>>
    ELSE ExpectedLR(slf, Head(snt)) \o ExpectedFlat(slf, Tail(snt))

\* C7: with tolerance 0 the L part of every chunk longer than 2 is its prefix
\* of length >= 2 of highest score (unknown_score when absent), the longest of
\* those, and the R part is the rest of the chunk; the flattened output lists
\* L then R chunk by chunk, an empty R left out; the scores and the sentence of
\* the docstring give the output of the docstring
C7_BestPrefix ==
    args.tolerance = 0 =>
        /\ \A k \in 1..Len(tokens) :
              /\ tokens[k][1].word = Slice(sentence[k], 0, BestPrefixLen(self, sentence[k]))
              /\ tokens[k][2].word =
                     Slice(sentence[k], BestPrefixLen(self, sentence[k]), Len(sentence[k]))
        /\ (pc = "done" /\ args.flatten /\ ~args.remove_r) =>
              /\ ret = ExpectedFlat(self, sentence)
              /\ (args.scores = ExampleScores /\ sentence = ExampleSentence) =>
                    ret = ExampleOutput

\* the docstring example has run to its end
C7_ExampleWitness ==
    /\ pc = "done"
    /\ args.tolerance = 0
    /\ args.flatten
    /\ ~args.remove_r
    /\ args.scores = ExampleScores
    /\ sentence = ExampleSentence
    /\ ret = ExampleOutput

-----------------------------------------------------------------------------
(* Properties of MaxLRScoreTokenizer *)

RECURSIVE ConcatWords(_)
ConcatWords(parts) ==
    IF parts = <<>> THEN <<>> ELSE Head(parts).word \o ConcatWords(Tail(parts))

\* C5 (as stated): the Left and Right parts _tokenize returns, empty parts left
\* out, concatenated in order are the word: no character missing, none twice
C5_ExactCover ==
    pc = "done" => ConcatWords(ret) = sentence[1]

\* the Left span of c holds the Left span of x and is longer
StrictlyContains(c, x) ==
    c.p0 <= x.p0 /\ c.p1 >= x.p1 /\ (c.p1 - c.p0) > (x.p1 - x.p0)

\* the candidate x is among the survivors
Survives(x, survivors) ==
    \E k \in 1..Len(survivors) :
        survivors[k].p0 = x.p0 /\ survivors[k].p1 = x.p1 /\ survivors[k].p2 = x.p2

\* the Left score of a candidate
LeftScore(slf, c) == Get(slf.Dl, c.l, 0)

\* C10 (as amended): for a candidate that survives _remove_l_subset, with Left
\* score s, every candidate of the input whose Left span contains its Left
\* span and is longer and whose Left score c has s - c < max_lscore_difference
\* was taken before it: c is higher than s, or equal to s with the candidate
\* earlier in the input. So no such candidate has a lower Left score, or an
\* equal one and a later place; one with a higher Left score suppresses nothing
C10_OnlyLaterSuppress ==
    \A jx \in 1..Len(candidates) : \A jc \in 1..Len(candidates) :
        (/\ Survives(candidates[jx], candidates_)
         /\ StrictlyContains(candidates[jc], candidates[jx])
         /\ LeftScore(self, candidates[jx]) - LeftScore(self, candidates[jc])
                < self.max_lscore_difference)
        => \/ LeftScore(self, candidates[jc]) > LeftScore(self, candidates[jx])
           \/ /\ LeftScore(self, candidates[jc]) = LeftScore(self, candidates[jx])
              /\ jc < jx

\* a survivor whose Left span a longer candidate of higher Left score contains,
\* and a candidate the filter removed
C10_HigherWitness ==
    /\ pc = "score"
    /\ \E jx \in 1..Len(candidates) : \E jc \in 1..Len(candidates) :
          /\ Survives(candidates[jx], candidates_)
          /\ StrictlyContains(candidates[jc], candidates[jx])
          /\ LeftScore(self, candidates[jc]) > LeftScore(self, candidates[jx])
    /\ Len(candidates_) < Len(candidates)

\* C10 (as stated): for a survivor with Left score s no candidate of the input
\* has a longer Left span that contains the survivor's and a Left score c with
\* s - c < max_lscore_difference, be c lower than, equal to or higher than s
C10_NoLongerWithinGap ==
    \A jx \in 1..Len(candidates) : \A jc \in 1..Len(candidates) :
        (/\ Survives(candidates[jx], candidates_)
         /\ StrictlyContains(candidates[jc], candidates[jx]))
        => ~(LeftScore(self, candidates[jx]) - LeftScore(self, candidates[jc])
                 < self.max_lscore_difference)

\* C11 (as stated): a candidate with Left score s that _remove_l_subset drops
\* has a longer candidate c containing its Left span with either
\* s - c.leftScore < max_lscore_difference, or c.leftScore above
\* ensurable_score_l * 0.5 and (s + eps) / (c.leftScore + eps) below
\* max_lscore_diffratio: a longer candidate whose Left score is at most
\* ensurable_score_l * 0.5 suppresses nothing through the ratio test
C11_RatioNeedsStrongLonger ==
    \A jx \in 1..Len(candidates) :
        (/\ pc \notin {"new", "initialize", "remove_l_subset"}
         /\ ~Survives(candidates[jx], candidates_))
        => \E jc \in 1..Len(candidates) :
              /\ StrictlyContains(candidates[jc], candidates[jx])
              /\ \/ LeftScore(self, candidates[jx]) - LeftScore(self, candidates[jc])
                        < self.max_lscore_difference
                 \/ /\ self.ensurable_score_l < 2 * LeftScore(self, candidates[jc])
                    /\ RatioLess(LeftScore(self, candidates[jx]),
                                 LeftScore(self, candidates[jc]),
                                 self.max_lscore_diffratio)

\* the rule by which a candidate x with a non-empty Right is dropped: a
\* candidate of cands begins in [p1, p2) of x with a Left score, plus its Pl
\* bonus, more than ensurable_score_lr_diff above the Right score of x, or
\* with a Left score above ensurable_score_l
RightClaimed(slf, cands, x) ==
    /\ x.len_r # 0
    /\ \E k \in 1..Len(cands) :
          /\ cands[k].p0 \in x.p1..(x.p2 - 1)
          /\ \/ cands[k].score_l + Get(slf.Pl, cands[k].l, 0) - x.score_r
                    > slf.ensurable_score_lr_diff
             \/ cands[k].score_l > slf.ensurable_score_l

\* C12 (as stated): _score drops a candidate if and only if its Right is not
\* empty and a survivor of the filter begins in its Right span [p1, p2) with
\* Left score + Pl bonus - r > ensurable_score_lr_diff or with Left score >
\* ensurable_score_l; a candidate with an empty Right is never dropped; every
\* candidate kept has total_score = (2 * leftScore if its Right is empty, else
\* leftScore + rightScore) + Pl bonus of Left + Pr bonus of Right
C12_DropRule ==
    pc \in {"find_best", "post", "done", "error"} =>
        /\ \A k \in 1..Len(candidates_) :
              ~Survives(candidates_[k], scored)
                  <=> RightClaimed(self, candidates_, candidates_[k])
        /\ \A k \in 1..Len(scored) :
              scored[k].total_score =
                  (IF scored[k].len_r = 0 THEN 2 * scored[k].score_l
                   ELSE scored[k].score_l + scored[k].score_r)
                  + Get(self.Pl, scored[k].l, 0) + Get(self.Pr, scored[k].r, 0)

=============================================================================
